---- MODULE Spec2Model ----
(***************************************************************************)
(* Model of the dbt -> Superset synchronisation of preset_cli:             *)
(*   - get_metric_expression / apply_filters   (sync/dbt/metrics.py)       *)
(*   - sync_datasets / create_dataset          (sync/dbt/datasets.py)      *)
(* A Python str is a sequence of symbols; a fixed piece of SQL text of the *)
(* source (such as "COALESCE(") is one symbol.  The remote service behind  *)
(* SupersetClient is not part of the sources and is modelled from the      *)
(* interface the specification gives for it.                               *)
(***************************************************************************)
EXTENDS Integers, Sequences, FiniteSets, TLC

VARIABLES
    models,            \* sync_datasets argument: the list of models
    metrics,           \* sync_datasets argument: the list of metrics (mutated by meta.pop)
    external_url_prefix, \* sync_datasets argument: "" when no base URL is configured
    remote,            \* the remote service: dataset id -> dataset record
    metric_seq,        \* the remote service: last metric id it assigned
    pc,                \* position of sync_datasets
    run,               \* number of the current call of sync_datasets
    idx,               \* index in `models` of the model of the current iteration
    existing,          \* local `existing` after lines 85-92 (candidate ids)
    dataset,           \* local `dataset` (its id), 0 when there is none yet
    existing_metrics,  \* local `existing_metrics`
    dataset_metrics,   \* local `dataset_metrics`
    datasets,          \* local `datasets`, the list that is returned
    error,             \* the exception that ended the current call, "none" otherwise
    log,               \* history: every remote call issued and every dataset appended, in order
    failed,            \* history: some remote call has failed
    c_name,            \* get_metric_expression argument metric_name
    c_metrics,         \* get_metric_expression argument metrics (list form)
    c_out              \* what get_metric_expression returned or raised

vars == <<models, metrics, external_url_prefix, remote, metric_seq, pc, run, idx, existing, dataset,
          existing_metrics, dataset_metrics, datasets, error, log, failed,
          c_name, c_metrics, c_out>>

compileVars == <<c_name, c_metrics, c_out>>

(* Bounds of the model *)

\* longest list of models handed to sync_datasets
MaxModels == 2
\* number of datasets the remote service may hold before the first run
MaxInitDatasets == 2
\* number of successive calls of sync_datasets
MaxRuns == 2
\* depth of the Python call stack available to a recursion
MaxDepth == 4

(* Python str as a sequence of symbols *)

\* "".join / concatenation of a sequence of strings
RECURSIVE Concat(_)
Concat(ss) == IF ss = <<>> THEN <<>> ELSE Head(ss) \o Concat(Tail(ss))

\* sep.join(ss)
RECURSIVE Join(_, _)
Join(ss, sep) ==
    IF ss = <<>> THEN <<>>
    ELSE IF Len(ss) = 1 THEN Head(ss)
    ELSE Head(ss) \o sep \o Join(Tail(ss), sep)

\* s.startswith(old)
StartsWith(s, old) ==
    /\ Len(old) <= Len(s)
    /\ SubSeq(s, 1, Len(old)) = old

\* s.replace(old, new) for a non-empty old: every non-overlapping occurrence,
\* scanning from the left
RECURSIVE Replace(_, _, _)
Replace(s, old, new) ==
    IF s = <<>> THEN <<>>
    ELSE IF StartsWith(s, old)
         THEN new \o Replace(SubSeq(s, Len(old) + 1, Len(s)), old, new)
         ELSE <<Head(s)>> \o Replace(Tail(s), old, new)

(* metrics.py *)

\* the keys of simple_mappings
SimpleMethods == {"count", "sum", "average", "min", "max"}

\* simple_mappings naming every function by the upper-cased method
simple_mappings_upper(method) ==
    CASE method = "count" -> "COUNT"
      [] method = "sum" -> "SUM"
      [] method = "average" -> "AVERAGE"
      [] method = "min" -> "MIN"
      [] method = "max" -> "MAX"

simple_mappings(method) ==
    CASE method = "count" -> "COUNT"
      [] method = "sum" -> "SUM"
      [] method = "average" -> "AVG"
      [] method = "min" -> "MIN"
      [] method = "max" -> "MAX"

\* apply_filters joining the conditions with OR
apply_filters_or(sql, filters) ==
    <<"CASE WHEN ">>
        \o Join([i \in 1..Len(filters) |->
                    filters[i].field \o <<" ">> \o filters[i].operator
                        \o <<" ">> \o filters[i].value], <<" OR ">>)
        \o <<" THEN ">> \o sql \o <<" END">>

\* "{field} {operator} {value}".format(**filter_)
FilterText(f) == f.field \o <<" ">> \o f.operator \o <<" ">> \o f.value

FilterTexts(filters) == [i \in 1..Len(filters) |-> FilterText(filters[i])]

apply_filters(sql, filters) ==
    <<"CASE WHEN ">> \o Join(FilterTexts(filters), <<" AND ">>)
        \o <<" THEN ">> \o sql \o <<" END">>

\* a call that returned val / a call that raised err
Returned(val) == [ok |-> TRUE, err |-> "none", val |-> val]
Raised(err) == [ok |-> FALSE, err |-> err, val |-> <<>>]

\* the dict a list of metrics gives by name: a later metric of the same name wins
Names(ms) == {ms[i].name : i \in 1..Len(ms)}
ByName(ms) ==
    [n \in Names(ms) |->
        ms[CHOOSE i \in 1..Len(ms) :
              /\ ms[i].name = n
              /\ \A j \in 1..Len(ms) : ms[j].name = n => j <= i]]

\* the last child whose compilation raised: every child is compiled before
\* an exception is let through
FirstRaised_last(rs) ==
    IF \E i \in 1..Len(rs) : ~rs[i].ok
    THEN CHOOSE i \in 1..Len(rs) : ~rs[i].ok /\ \A j \in (i + 1)..Len(rs) : rs[j].ok
    ELSE 0

\* the first child whose compilation raised, 0 when none did
FirstRaised(rs) ==
    IF \E i \in 1..Len(rs) : ~rs[i].ok
    THEN CHOOSE i \in 1..Len(rs) : ~rs[i].ok /\ \A j \in 1..(i - 1) : rs[j].ok
    ELSE 0

\* lines 50-51: for child in deps: expression = expression.replace(...)
RECURSIVE ReplaceAll(_, _, _)
ReplaceAll(expression, names, rs) ==
    IF names = <<>> THEN expression
    ELSE ReplaceAll(Replace(expression, Head(names), Head(rs).val),
                    Tail(names), Tail(rs))

\* get_metric_expression(metric_name, metrics) with `depth` frames left on
\* the call stack; md is the dict `metrics`
RECURSIVE Compile(_, _, _)
Compile(metric_name, md, depth) ==
    IF depth = 0 THEN Raised("RecursionError")
    ELSE IF metric_name \notin DOMAIN md THEN Raised("Invalid metric")
    ELSE
      LET metric == md[metric_name]
          calculation_method == metric.calculation_method
          expression ==
              IF metric.filters # <<>>
              THEN apply_filters(metric.expression, metric.filters)
              ELSE metric.expression
      IN  IF calculation_method \in SimpleMethods
          THEN Returned(<<"COALESCE(", simple_mappings(calculation_method), "(">>
                            \o expression \o <<")", ", 0)">>)
          ELSE IF calculation_method = "count_distinct"
          THEN Returned(<<"COUNT(DISTINCT ">> \o expression \o <<")">>)
          ELSE IF calculation_method \in {"derived", "expression"}
          THEN LET rs == [i \in 1..Len(metric.metrics) |->
                             Compile(metric.metrics[i], md, depth - 1)]
                   bad == FirstRaised(rs)
               IN  IF bad # 0 THEN Raised(rs[bad].err)
                   ELSE Returned(ReplaceAll(expression, metric.metrics, rs))
          ELSE IF calculation_method = "median"
          THEN Returned(<<"COALESCE(PERCENTILE_CONT(0.5) WITHIN GROUP (ORDER BY ">>
                            \o expression \o <<" ASC), 0)">>)
          ELSE Raised("Unable to generate metric expression")

\* get_metric_expression without the check of line 18: an unknown name is
\* returned as its own expression
get_metric_expression_unchecked(metric_name, md) ==
    IF metric_name \notin DOMAIN md THEN Returned(metric_name)
    ELSE Compile(metric_name, md, MaxDepth)

get_metric_expression(metric_name, md) == Compile(metric_name, md, MaxDepth)


(* The manifest records the model draws its inputs from *)

\* metric names; NC names no metric of any manifest
NA == <<"m1">>
NB == <<"m2">>
NC == <<"m3">>

\* the calculation methods get_metric_expression dispatches on, and one it does not
KnownMethods == SimpleMethods \cup {"count_distinct", "median", "derived", "expression"}
Methods == KnownMethods \cup {"bogus"}

F1 == [field |-> <<"country">>, operator |-> <<"=">>, value |-> <<"'US'">>]
F2 == [field |-> <<"amount">>, operator |-> <<">">>, value |-> <<"0">>]

\* a metric record of the manifest (MetricSchema)
Metric(name, method, expression, filters, refs, deps, superset) ==
    [name |-> name, calculation_method |-> method, expression |-> expression,
     filters |-> filters, metrics |-> refs, depends_on |-> deps,
     superset |-> superset]

\* the `superset` bag of a metric's meta: absent, or overriding verbose_name
NoKwargs == [has_verbose_name |-> FALSE, verbose_name |-> <<>>]
KwargsLabel == [has_verbose_name |-> TRUE, verbose_name |-> <<"override">>]

(* get_metric_expression on a bounded set of inputs *)

CompileExprs == {<<"amount">>, <<"m1", " / ", "m2">>}
CompileFilters == {<<>>, <<F1>>, <<F1, F2>>}
CompileRefs == {<<>>, <<NB>>, <<NA, NB>>, <<NC>>}

CompileMetric(name) ==
    {Metric(name, m, e, f, r, <<>>, NoKwargs) :
        m \in Methods, e \in CompileExprs, f \in CompileFilters, r \in CompileRefs}

CompileInputs ==
    {<<a>> : a \in CompileMetric(NA)}
        \cup {<<a, b>> : a \in CompileMetric(NA), b \in CompileMetric(NB)}

\* mappings in which the name of one metric occurs in the name of another and
\* in the expression of another
NR == <<"ratio">>
NRev == <<"rev">>
NRevNet == <<"rev", "_net">>

DerivedExprs == {<<"rev", "_net", " / ", "rev">>, <<"rev", " - ", "rev", "_net">>}
DerivedRefs == {<<NRev, NRevNet>>, <<NRevNet, NRev>>}

DerivedInputs ==
    {<<Metric(NRev, "sum", <<"gross">>, <<>>, <<>>, <<>>, NoKwargs),
       Metric(NRevNet, "sum", e, <<>>, <<>>, <<>>, NoKwargs),
       Metric(NR, m, t, <<>>, r, <<>>, NoKwargs)>> :
        e \in {<<"net">>, <<"rev", " - ", "tax">>},
        m \in {"derived", "expression"}, t \in DerivedExprs, r \in DerivedRefs}

NoOut == [ok |-> FALSE, err |-> "pending", val |-> <<>>]

\* the variables of sync_datasets, at rest
SyncIdle ==
    /\ models = <<>>
    /\ metrics = <<>>
    /\ external_url_prefix = ""
    /\ remote = <<>>
    /\ metric_seq = 0
    /\ run = 0
    /\ idx = 0
    /\ existing = <<>>
    /\ dataset = 0
    /\ existing_metrics = <<>>
    /\ dataset_metrics = <<>>
    /\ datasets = <<>>
    /\ error = "none"
    /\ log = <<>>
    /\ failed = FALSE

InitCompile ==
    /\ SyncIdle
    /\ pc = "compile"
    /\ \/ c_metrics \in CompileInputs /\ c_name \in {NA, NB, NC}
       \/ c_metrics \in DerivedInputs /\ c_name = NR
    /\ c_out = NoOut

\* one call get_metric_expression(c_name, {m["name"]: m for m in c_metrics})
CompileCall ==
    /\ pc = "compile"
    /\ c_out' = get_metric_expression(c_name, ByName(c_metrics))
    /\ pc' = "compiled"
    /\ UNCHANGED <<external_url_prefix, models, metrics, remote, metric_seq, run, idx, existing, dataset,
                   existing_metrics, dataset_metrics, datasets, error, log, failed,
                   c_name, c_metrics>>

NextCompile == CompileCall

SpecCompile == InitCompile /\ [][NextCompile]_vars

(* Records of sync_datasets and of the remote service *)

\* database["id"] and the database name of database["sqlalchemy_uri"]
DbId == 1
DbName == "db1"

\* the `extra` JSON text of a dataset: with a unique_id, or without one
Extra(uid) == [has_unique_id |-> TRUE, unique_id |-> uid]
NoExtra == [has_unique_id |-> FALSE, unique_id |-> ""]

\* a metric as update_dataset is handed it
PayloadMetric(name, expression, type, label) ==
    [metric_name |-> name, expression |-> expression, metric_type |-> type,
     verbose_name |-> label]

\* a metric as the remote service holds and returns it: with the id it assigned
Stored(m, id) ==
    [metric_name |-> m.metric_name, expression |-> m.expression,
     metric_type |-> m.metric_type, verbose_name |-> m.verbose_name, id |-> id]

\* the `superset` bag of a model's meta: for each key, whether the bag has it
Bag(has_extra, extra, has_metrics, ms) ==
    [has_extra |-> has_extra, extra |-> extra,
     has_metrics |-> has_metrics, metrics |-> ms,
     has_external_url |-> FALSE, external_url |-> ""]
NoBag == Bag(FALSE, NoExtra, FALSE, <<>>)
\* a bag that has the key external_url
BagUrl(url) == [NoBag EXCEPT !.has_external_url = TRUE, !.external_url = url]

\* a column of a model; is_dttm is meta.superset.is_dttm ("absent", "true", "false")
Column(name, data_type, is_dttm) ==
    [name |-> name, data_type |-> data_type, is_dttm |-> is_dttm]

\* a model record of the manifest (ModelSchema)
Model(unique_id, name, alias, database, columns, superset) ==
    [unique_id |-> unique_id, name |-> name, alias |-> alias,
     database |-> database, columns |-> columns, superset |-> superset]

\* a dataset of the remote service
Dataset(database, table_name, sql, extra, ms, columns) ==
    [database |-> database, table_name |-> table_name, sql |-> sql,
     extra |-> extra, metrics |-> ms, columns |-> columns]

\* model.get("alias") or model["name"]
TableName(model) == IF model.alias # "" THEN model.alias ELSE model.name

\* model_in_database with a driver other than bigquery
model_in_database(model) == model.database = DbName

\* the keyword arguments create_dataset builds
create_dataset(model) ==
    [database |-> DbId,
     table_name |-> TableName(model),
     sql |-> IF model_in_database(model) THEN ""
             ELSE "SELECT * FROM " \o model.database \o "." \o model.alias]

\* lines 85-92: the candidates, as ids in the order the service lists them
Found(rem, model) ==
    SelectSeq([i \in 1..Len(rem) |-> i],
              LAMBDA i : /\ rem[i].database = DbId
                         /\ rem[i].table_name = TableName(model))

\* json.loads(item["extra"])["unique_id"] raises for some candidate
ExtraRaises(rem, found) ==
    \E k \in 1..Len(found) : ~rem[found[k]].extra.has_unique_id

ByUniqueId(rem, found, model) ==
    SelectSeq(found, LAMBDA i : rem[i].extra.unique_id = model.unique_id)

\* lines 86-92: existing after the disambiguation
Disambiguate(rem, found, model) ==
    IF Len(found) > 1 THEN ByUniqueId(rem, found, model) ELSE found

(* lines 128-145 *)

\* [m for m in metrics if m["name"] == real_metric]: positions in the list
Named(ms, name) == SelectSeq([i \in 1..Len(ms) |-> i], LAMBDA i : ms[i].name = name)

\* get_deps_metrics(metric) with `depth` frames left: the list of model ids
RECURSIVE Deps(_, _, _)
Deps(metric, ms, depth) ==
    IF depth = 0 THEN Raised("RecursionError")
    ELSE IF Len(metric.metrics) > 0
    THEN LET rs == [i \in 1..Len(metric.metrics) |->
                       IF Named(ms, metric.metrics[i]) = <<>>
                       THEN Raised("IndexError")
                       ELSE Deps(ms[Named(ms, metric.metrics[i])[1]], ms, depth - 1)]
             bad == FirstRaised(rs)
         IN  IF bad # 0 THEN Raised(rs[bad].err)
             ELSE Returned(metric.depends_on
                               \o Concat([i \in 1..Len(rs) |-> rs[i].val]))
    ELSE Returned(metric.depends_on)

get_deps_metrics(metric, ms) == Deps(metric, ms, MaxDepth)

InSeq(x, s) == \E i \in 1..Len(s) : s[i] = x

\* lines 147-151: the positions of the metrics that belong to the model
Belongs(model, ms) ==
    SelectSeq([i \in 1..Len(ms) |-> i],
              LAMBDA i : InSeq(model.unique_id, get_deps_metrics(ms[i], ms).val))

\* some get_deps_metrics call of lines 147-151 raises: the first one's error
DepsError(ms) ==
    LET rs == [i \in 1..Len(ms) |-> get_deps_metrics(ms[i], ms)]
    IN  IF FirstRaised(rs) = 0 THEN "none" ELSE rs[FirstRaised(rs)].err

\* model_metrics: the dict of the metrics that belong to the model
model_metrics(model, ms) ==
    ByName([k \in 1..Len(Belongs(model, ms)) |-> ms[Belongs(model, ms)[k]]])

\* a list without the later repetitions of its elements
RECURSIVE Dedup(_)
Dedup(s) ==
    IF s = <<>> THEN <<>>
    ELSE LET front == Dedup(SubSeq(s, 1, Len(s) - 1))
         IN  IF InSeq(s[Len(s)], front) THEN front ELSE Append(front, s[Len(s)])

\* the keys of model_metrics in insertion order: the first position of each name
KeyOrder(model, ms) ==
    LET b == Belongs(model, ms)
    IN  Dedup([k \in 1..Len(b) |-> ms[b[k]].name])

\* line 152
model_metrics_names(ms) == [i \in 1..Len(ms) |-> ms[i].name]

\* line 155: the keys of metric_keys among those of a stored metric
Whitelisted(m) ==
    PayloadMetric(m.metric_name, m.expression, m.metric_type, m.verbose_name)

CountName == <<"count">>

\* lines 153-162 with `in` for `not in` at line 158
Preserved_in(existing_ms, ms) ==
    LET keep == SelectSeq(existing_ms,
                          LAMBDA m : /\ m.metric_name # CountName
                                     /\ InSeq(m.metric_name, model_metrics_names(ms)))
    IN  [k \in 1..Len(keep) |-> Whitelisted(keep[k])]

\* lines 153-162: the remote metrics that are carried over
Preserved(existing_ms, ms) ==
    LET keep == SelectSeq(existing_ms,
                          LAMBDA m : /\ m.metric_name # CountName
                                     /\ ~InSeq(m.metric_name, model_metrics_names(ms)))
    IN  [k \in 1..Len(keep) |-> Whitelisted(keep[k])]

(* lines 163-177 *)

\* get_metric_expression(name, model_metrics) for each key of model_metrics
Compiled(model, ms) ==
    [k \in 1..Len(KeyOrder(model, ms)) |->
        get_metric_expression(KeyOrder(model, ms)[k], model_metrics(model, ms))]

\* the entries appended to dataset_metrics when no compilation raises
ManifestMetrics(model, ms) ==
    LET keys == KeyOrder(model, ms)
        md == model_metrics(model, ms)
    IN  [k \in 1..Len(keys) |->
            PayloadMetric(keys[k],
                          Compiled(model, ms)[k].val,
                          md[keys[k]].calculation_method,
                          IF md[keys[k]].superset.has_verbose_name
                          THEN md[keys[k]].superset.verbose_name
                          ELSE keys[k])]

\* the last position of a name in a list of metrics: the object the dict holds
LastNamed(ms, name) == Named(ms, name)[Len(Named(ms, name))]

\* meta.pop("superset", {}) on the first n values of model_metrics: the list
\* `metrics` afterwards
Popped(model, ms, n) ==
    LET keys == KeyOrder(model, ms)
        b == Belongs(model, ms)
        belonging == [k \in 1..Len(b) |-> ms[b[k]]]
        hit == {b[LastNamed(belonging, keys[k])] : k \in 1..n}
    IN  [i \in 1..Len(ms) |->
            IF i \in hit THEN [ms[i] EXCEPT !.superset = NoKwargs] ELSE ms[i]]

(* lines 179-216: the three updates *)

\* the fields handed to update_dataset: the keys present, and the values the
\* model follows
Payload(keys, extra, ms, columns) ==
    [keys |-> keys, extra |-> extra, metrics |-> ms, columns |-> columns,
     external_url |-> ""]

\* line 189: str(base_url.with_fragment(f"!/model/{model['unique_id']}"))
with_fragment(base_url, unique_id) == base_url \o "#!/model/" \o unique_id

\* lines 180-187: the computed fields, then the keys of the bag over them
Merged(model) ==
    LET bag == model.superset
        update == Payload({"description", "schema", "extra",
                           "is_managed_externally", "metrics"},
                          IF bag.has_extra THEN bag.extra ELSE Extra(model.unique_id),
                          IF bag.has_metrics THEN bag.metrics ELSE <<>>,
                          <<>>)
    IN  IF bag.has_external_url
        THEN [update EXCEPT !.keys = @ \cup {"external_url"},
                            !.external_url = bag.external_url]
        ELSE update

\* lines 180-190: the fields of the base update
BaseUpdate(model) ==
    IF external_url_prefix # ""
    THEN [Merged(model) EXCEPT
             !.keys = @ \cup {"external_url"},
             !.external_url = with_fragment(external_url_prefix, model.unique_id)]
    ELSE Merged(model)

\* lines 195-197
MetricsUpdate(ms) == Payload({"metrics"}, NoExtra, ms, <<>>)

\* lines 206-210
IsDttm(column) ==
    IF column.is_dttm # "true" THEN column.data_type = "timestamp" ELSE FALSE

\* lines 201-214
ColumnsUpdate(model) ==
    Payload({"columns"}, NoExtra, <<>>,
            [k \in 1..Len(model.columns) |->
                [column_name |-> model.columns[k].name,
                 is_dttm |-> IsDttm(model.columns[k])]])

(* The remote service *)

\* the dataset create_dataset leaves on the service
Created(kwargs) ==
    Dataset(kwargs.database, kwargs.table_name, kwargs.sql, NoExtra, <<>>, <<>>)

\* update_dataset(id, **fields) on the service: each field sent replaces the
\* stored one; a metric sent is stored under a fresh id
Updated(d, fields, seq) ==
    [d EXCEPT
        !.extra = IF "extra" \in fields.keys THEN fields.extra ELSE @,
        !.metrics = IF "metrics" \in fields.keys
                    THEN [k \in 1..Len(fields.metrics) |->
                             Stored(fields.metrics[k], seq + k)]
                    ELSE @,
        !.columns = IF "columns" \in fields.keys THEN fields.columns ELSE @]

SeqAfter(fields, seq) ==
    IF "metrics" \in fields.keys THEN seq + Len(fields.metrics) ELSE seq

\* a remote call, or an append to the result, as the history records it
Event(op, id, ok, override_columns, fields) ==
    [run |-> run, idx |-> idx, op |-> op, id |-> id, ok |-> ok,
     override_columns |-> override_columns,
     keys |-> fields.keys, metrics |-> fields.metrics,
     extra |-> fields.extra, external_url |-> fields.external_url]

NoFields == Payload({}, NoExtra, <<>>, <<>>)

\* the keyword arguments of create_dataset as fields of the call
CreateFields(model) ==
    Payload({"database", "schema", "table_name"}
                \cup (IF create_dataset(model).sql # "" THEN {"sql"} ELSE {}),
            NoExtra, <<>>, <<>>)

(* The inputs of sync_datasets the model draws from *)

Col1 == Column("created_at", "timestamp", "absent")
ColNotDttm == Column("updated_at", "timestamp", "false")
ColDttm == Column("deleted_at", "timestamp", "true")
ColText == Column("label", "varchar", "true")

\* the metrics a `superset` bag of a model puts in place of the empty list
BagMetric == PayloadMetric(<<"bag">>, <<"1">>, "sum", <<"bag">>)

ModelSet ==
    { Model("mA", "t1", "", "db1", <<Col1, ColNotDttm, ColDttm, ColText>>, NoBag),
      Model("mB", "t2", "", "db1", <<>>, NoBag),
      Model("mB", "t2", "t1", "db2", <<Col1>>, NoBag),
      Model("mA", "t1", "", "db1", <<>>, Bag(TRUE, Extra("mZ"), FALSE, <<>>)),
      Model("mA", "t1", "", "db1", <<>>, Bag(FALSE, NoExtra, TRUE, <<BagMetric>>)),
      Model("mA", "t1", "", "db1", <<>>, BagUrl("https://wiki.example/mA")) }

\* external_url_prefix: not given, or the URL of the documentation
ExternalUrlPrefixes == {"", "https://dbt.example/docs"}

\* a metric of both models, filtered, with a `superset` bag
BaseManifest ==
    <<Metric(NA, "sum", <<"amount">>, <<F1>>, <<>>, <<"mA", "mB">>, KwargsLabel)>>

Manifests ==
    { <<>>,
      BaseManifest,
      <<Metric(NA, "sum", <<"amount">>, <<>>, <<>>, <<"mA">>, NoKwargs)>>,
      <<Metric(NA, "sum", <<"amount">>, <<>>, <<>>, <<"mB">>, NoKwargs)>>,
      <<Metric(NA, "bogus", <<"amount">>, <<>>, <<>>, <<"mA">>, NoKwargs)>>,
      <<Metric(NA, "count_distinct", <<"id">>, <<>>, <<>>, <<"mA">>, NoKwargs),
        Metric(NB, "derived", <<"m1", " * 2">>, <<>>, <<NA>>, <<>>, NoKwargs)>>,
      <<Metric(NA, "max", <<"amount">>, <<>>, <<>>, <<"mB">>, NoKwargs),
        Metric(NB, "derived", <<"m1", " * 2">>, <<>>, <<NA>>, <<"mA">>, NoKwargs)>>,
      <<Metric(NB, "expression", <<"m3", " + 1">>, <<>>, <<NC>>, <<"mA">>, NoKwargs)>> }

\* the metrics a dataset may hold before the first run
RCount == PayloadMetric(CountName, <<"COUNT(*)">>, "count", <<"count">>)
RSame == PayloadMetric(NA, <<"old">>, "sum", <<"old m1">>)
ROnly == PayloadMetric(<<"r1">>, <<"MAX(x)">>, "max", <<"manual">>)

BaseMetrics == <<RCount, RSame, ROnly>>
InitMetricLists == {<<>>, <<RCount>>, <<ROnly, RSame>>, BaseMetrics}

\* the datasets of the service before the first run
DatasetShapes ==
    [table_name : {"t1", "t2"}, extra : {Extra("mA"), Extra("mB"), NoExtra}]

InitRemote(shape, im) ==
    [i \in 1..Len(shape) |->
        Dataset(DbId, shape[i].table_name, "", shape[i].extra,
                [j \in 1..Len(im) |-> Stored(im[j], (i - 1) * Len(im) + j)],
                <<>>)]

CompileIdle ==
    /\ c_name = <<>>
    /\ c_metrics = <<>>
    /\ c_out = NoOut

\* The inputs vary the models and the datasets they find, with the metrics
\* of BaseManifest and BaseMetrics, or they vary the metrics of the manifest
\* and of the service, with one model and at most one dataset.
Init ==
    /\ \E n \in 1..MaxModels : models \in [1..n -> ModelSet]
    /\ metrics \in Manifests
    /\ external_url_prefix \in ExternalUrlPrefixes
    /\ \E n \in 0..MaxInitDatasets : \E shape \in [1..n -> DatasetShapes] :
          \E im \in InitMetricLists :
             /\ \/ metrics = BaseManifest /\ im = BaseMetrics
                \/ Len(models) = 1 /\ n <= 1
             /\ remote = InitRemote(shape, im)
             /\ metric_seq = n * Len(im)
    /\ pc = "locate"
    /\ run = 1
    /\ idx = 1
    /\ existing = <<>>
    /\ dataset = 0
    /\ existing_metrics = <<>>
    /\ dataset_metrics = <<>>
    /\ datasets = <<>>
    /\ error = "none"
    /\ log = <<>>
    /\ failed = FALSE
    /\ CompileIdle

(* sync_datasets, one action per remote call *)

\* an exception leaves sync_datasets (no handler but the one around create)
Raise(err) ==
    /\ pc' = "aborted"
    /\ error' = err

\* `break` for `continue`
NextModel_break ==
    /\ idx' = idx + 1
    /\ pc' = "done"

\* `continue`, or the end of the loop body: on to the next model
NextModel ==
    /\ idx' = idx + 1
    /\ pc' = IF idx < Len(models) THEN "locate" ELSE "done"

\* where the loop body goes once the base update is done / the metrics are done
AfterMetrics(model) == IF model.columns # <<>> THEN "columns" ELSE "append"
\* line 194 without its test: the metrics update is always issued
AfterBase_always(model, ms) == "metrics"
AfterBase(model, ms) == IF ms # <<>> THEN "metrics" ELSE AfterMetrics(model)

\* line 85, get_datasets raises
GetDatasetsFails ==
    /\ pc = "locate"
    /\ log' = Append(log, Event("get_datasets", 0, FALSE, FALSE, NoFields))
    /\ failed' = TRUE
    /\ Raise("RemoteError")
    /\ UNCHANGED <<external_url_prefix, models, metrics, remote, metric_seq, run, idx, existing, dataset,
                   existing_metrics, dataset_metrics, datasets>>
    /\ UNCHANGED compileVars

\* lines 81-100: get_datasets returns; pick the dataset or decide to create
Locate ==
    /\ pc = "locate"
    /\ log' = Append(log, Event("get_datasets", 0, TRUE, FALSE, NoFields))
    /\ LET model == models[idx]
           found == Found(remote, model)
       IN  IF Len(found) > 1 /\ ExtraRaises(remote, found)
           THEN /\ Raise("KeyError")
                /\ existing' = found
                /\ dataset' = 0
           ELSE LET ex == Disambiguate(remote, found, model)
                IN  /\ existing' = ex
                    /\ IF Len(ex) > 1
                       THEN /\ Raise("More than one dataset found")
                            /\ dataset' = 0
                       ELSE IF ex # <<>>
                       THEN /\ dataset' = ex[1]
                            /\ pc' = "detail"
                            /\ error' = error
                       ELSE /\ dataset' = 0
                            /\ pc' = "create"
                            /\ error' = error
    /\ UNCHANGED <<external_url_prefix, models, metrics, remote, metric_seq, run, idx,
                   existing_metrics, dataset_metrics, datasets, failed>>
    /\ UNCHANGED compileVars

\* lines 101-105: create_dataset raises, the model is skipped
CreateFails ==
    /\ pc = "create"
    /\ log' = Append(log, Event("create_dataset", 0, FALSE, FALSE,
                                CreateFields(models[idx])))
    /\ failed' = TRUE
    /\ NextModel
    /\ UNCHANGED <<external_url_prefix, models, metrics, remote, metric_seq, run, existing, dataset,
                   existing_metrics, dataset_metrics, datasets, error>>
    /\ UNCHANGED compileVars

\* line 102: create_dataset returns the new dataset
Create ==
    /\ pc = "create"
    /\ remote' = Append(remote, Created(create_dataset(models[idx])))
    /\ dataset' = Len(remote) + 1
    /\ log' = Append(log, Event("create_dataset", Len(remote) + 1, TRUE, FALSE,
                                CreateFields(models[idx])))
    /\ pc' = "detail"
    /\ UNCHANGED <<external_url_prefix, models, metrics, metric_seq, run, idx, existing,
                   existing_metrics, dataset_metrics, datasets, error, failed>>
    /\ UNCHANGED compileVars

\* line 115, get_dataset raises
GetDatasetFails ==
    /\ pc = "detail"
    /\ log' = Append(log, Event("get_dataset", dataset, FALSE, FALSE, NoFields))
    /\ failed' = TRUE
    /\ Raise("RemoteError")
    /\ UNCHANGED <<external_url_prefix, models, metrics, remote, metric_seq, run, idx, existing, dataset,
                   existing_metrics, dataset_metrics, datasets>>
    /\ UNCHANGED compileVars

\* lines 115-177: get_dataset returns; the metrics of the model are merged
\* with those of the dataset
GetDataset ==
    /\ pc = "detail"
    /\ log' = Append(log, Event("get_dataset", dataset, TRUE, FALSE, NoFields))
    /\ existing_metrics' = remote[dataset].metrics
    /\ LET model == models[idx]
           cs == Compiled(model, metrics)
           bad == FirstRaised(cs)
       IN  IF DepsError(metrics) # "none"
           THEN /\ Raise(DepsError(metrics))
                /\ UNCHANGED <<metrics, dataset_metrics>>
           ELSE IF bad # 0
           THEN /\ Raise(cs[bad].err)
                /\ metrics' = Popped(model, metrics, bad)
                /\ dataset_metrics' =
                       Preserved(remote[dataset].metrics, metrics)
                           \o SubSeq(ManifestMetrics(model, metrics), 1, bad - 1)
           ELSE /\ metrics' = Popped(model, metrics, Len(cs))
                /\ dataset_metrics' =
                       Preserved(remote[dataset].metrics, metrics)
                           \o ManifestMetrics(model, metrics)
                /\ pc' = "base"
                /\ error' = error
    /\ UNCHANGED <<external_url_prefix, models, remote, metric_seq, run, idx, existing, dataset,
                   datasets, failed>>
    /\ UNCHANGED compileVars

\* line 191, update_dataset raises
UpdateBaseFails ==
    /\ pc = "base"
    /\ log' = Append(log, Event("update_dataset", dataset, FALSE, TRUE,
                                BaseUpdate(models[idx])))
    /\ failed' = TRUE
    /\ Raise("RemoteError")
    /\ UNCHANGED <<external_url_prefix, models, metrics, remote, metric_seq, run, idx, existing, dataset,
                   existing_metrics, dataset_metrics, datasets>>
    /\ UNCHANGED compileVars

\* lines 179-191: the update of the base fields
UpdateBase ==
    /\ pc = "base"
    /\ log' = Append(log, Event("update_dataset", dataset, TRUE, TRUE,
                                BaseUpdate(models[idx])))
    /\ remote' = [remote EXCEPT
                     ![dataset] = Updated(@, BaseUpdate(models[idx]), metric_seq)]
    /\ metric_seq' = SeqAfter(BaseUpdate(models[idx]), metric_seq)
    /\ pc' = AfterBase(models[idx], dataset_metrics)
    /\ UNCHANGED <<external_url_prefix, models, metrics, run, idx, existing, dataset,
                   existing_metrics, dataset_metrics, datasets, error, failed>>
    /\ UNCHANGED compileVars

\* line 198, update_dataset raises
UpdateMetricsFails ==
    /\ pc = "metrics"
    /\ log' = Append(log, Event("update_dataset", dataset, FALSE, FALSE,
                                MetricsUpdate(dataset_metrics)))
    /\ failed' = TRUE
    /\ Raise("RemoteError")
    /\ UNCHANGED <<external_url_prefix, models, metrics, remote, metric_seq, run, idx, existing, dataset,
                   existing_metrics, dataset_metrics, datasets>>
    /\ UNCHANGED compileVars

\* lines 194-198: the update of the metrics
UpdateMetrics ==
    /\ pc = "metrics"
    /\ log' = Append(log, Event("update_dataset", dataset, TRUE, FALSE,
                                MetricsUpdate(dataset_metrics)))
    /\ remote' = [remote EXCEPT
                     ![dataset] = Updated(@, MetricsUpdate(dataset_metrics), metric_seq)]
    /\ metric_seq' = SeqAfter(MetricsUpdate(dataset_metrics), metric_seq)
    /\ pc' = AfterMetrics(models[idx])
    /\ UNCHANGED <<external_url_prefix, models, metrics, run, idx, existing, dataset,
                   existing_metrics, dataset_metrics, datasets, error, failed>>
    /\ UNCHANGED compileVars

\* line 216, update_dataset raises
UpdateColumnsFails ==
    /\ pc = "columns"
    /\ log' = Append(log, Event("update_dataset", dataset, FALSE, TRUE,
                                ColumnsUpdate(models[idx])))
    /\ failed' = TRUE
    /\ Raise("RemoteError")
    /\ UNCHANGED <<external_url_prefix, models, metrics, remote, metric_seq, run, idx, existing, dataset,
                   existing_metrics, dataset_metrics, datasets>>
    /\ UNCHANGED compileVars

\* lines 200-216: the update of the columns
UpdateColumns ==
    /\ pc = "columns"
    /\ log' = Append(log, Event("update_dataset", dataset, TRUE, TRUE,
                                ColumnsUpdate(models[idx])))
    /\ remote' = [remote EXCEPT
                     ![dataset] = Updated(@, ColumnsUpdate(models[idx]), metric_seq)]
    /\ pc' = "append"
    /\ UNCHANGED <<external_url_prefix, models, metrics, metric_seq, run, idx, existing, dataset,
                   existing_metrics, dataset_metrics, datasets, error, failed>>
    /\ UNCHANGED compileVars

\* line 218: datasets.append(dataset)
AppendDataset ==
    /\ pc = "append"
    /\ datasets' = Append(datasets, dataset)
    /\ log' = Append(log, Event("append", dataset, TRUE, FALSE, NoFields))
    /\ NextModel
    /\ UNCHANGED <<external_url_prefix, models, metrics, remote, metric_seq, run, existing, dataset,
                   existing_metrics, dataset_metrics, error, failed>>
    /\ UNCHANGED compileVars

\* sync_datasets is called again with the same arguments
NextRun ==
    /\ pc \in {"done", "aborted"}
    /\ run < MaxRuns
    /\ run' = run + 1
    /\ idx' = 1
    /\ pc' = "locate"
    /\ existing' = <<>>
    /\ dataset' = 0
    /\ existing_metrics' = <<>>
    /\ dataset_metrics' = <<>>
    /\ datasets' = <<>>
    /\ error' = "none"
    /\ UNCHANGED <<external_url_prefix, models, metrics, remote, metric_seq, log, failed>>
    /\ UNCHANGED compileVars

Next ==
    \/ GetDatasetsFails
    \/ Locate
    \/ CreateFails
    \/ Create
    \/ GetDatasetFails
    \/ GetDataset
    \/ UpdateBaseFails
    \/ UpdateBase
    \/ UpdateMetricsFails
    \/ UpdateMetrics
    \/ UpdateColumnsFails
    \/ UpdateColumns
    \/ AppendDataset

\* one call of sync_datasets
Spec == Init /\ [][Next]_vars

\* successive calls of sync_datasets against the same service
NextRuns ==
    \/ Next
    \/ NextRun

SpecRuns == Init /\ [][NextRuns]_vars

(* What the history tells *)

\* the events of the iteration for model i of run r
EventsOf(r, i) == SelectSeq(log, LAMBDA e : e.run = r /\ e.idx = i)

\* the create and update calls of the iteration for model i of run r
CallsOf(r, i) ==
    SelectSeq(EventsOf(r, i),
              LAMBDA e : e.op \in {"create_dataset", "update_dataset"})

\* the iteration for model i of run r has begun
Started(r, i) ==
    \E k \in 1..Len(log) :
        log[k].run = r /\ log[k].idx = i /\ log[k].op = "get_datasets"

\* the dataset of model i of run r is in the result
Appended(r, i) ==
    \E k \in 1..Len(log) :
        log[k].run = r /\ log[k].idx = i /\ log[k].op = "append"

ManifestNames == {metrics[i].name : i \in 1..Len(metrics)}

\* the loop body came to its end for the current model: all its updates are done
ModelDone == pc = "append"

(* C1: a model that stays ambiguous after the disambiguation fails alone: *)
(* every model after it in the list is still processed.                   *)
C1_AmbiguousModelFailsAlone ==
    (pc = "aborted" /\ error = "More than one dataset found")
        => \A j \in (idx + 1)..Len(models) : Started(run, j)

C3_CountPreserved ==
    ModelDone =>
        \A k \in 1..Len(existing_metrics) :
            existing_metrics[k].metric_name = CountName
                => \E j \in 1..Len(remote[dataset].metrics) :
                       Whitelisted(remote[dataset].metrics[j])
                           = Whitelisted(existing_metrics[k])

(* The create and update calls of one model, as C4 speaks of them *)

\* which of the calls of sync_datasets an event is
Kind(e) ==
    IF e.op = "create_dataset" THEN "create"
    ELSE IF "extra" \in e.keys THEN "base"
    ELSE IF e.keys = {"metrics"} THEN "metrics"
    ELSE IF e.keys = {"columns"} THEN "columns"
    ELSE "other"

Shape(kind, id, override_columns, ms) ==
    [kind |-> kind, id |-> id, override_columns |-> override_columns, metrics |-> ms]

Shapes(es) ==
    [k \in 1..Len(es) |->
        Shape(Kind(es[k]), es[k].id, es[k].override_columns, es[k].metrics)]

IsPrefix(s, t) == Len(s) <= Len(t) /\ s = SubSeq(t, 1, Len(s))

\* the current model found no dataset and is past its create call
PastCreate ==
    /\ pc \in {"detail", "base", "metrics", "columns", "append"}
    /\ existing = <<>>

\* the calls C4 expects for the current model, the base update sending `base`
\* as its metrics
ExpectedCalls(base) ==
    <<Shape("create", dataset, FALSE, <<>>), Shape("base", dataset, TRUE, base)>>
        \o (IF dataset_metrics # <<>>
            THEN <<Shape("metrics", dataset, FALSE, dataset_metrics)>> ELSE <<>>)
        \o (IF models[idx].columns # <<>>
            THEN <<Shape("columns", dataset, TRUE, <<>>)>> ELSE <<>>)

(* C4, as claimed: for a model with no matching dataset the calls are one *)
(* create, the base update with an empty metrics list, the metrics update *)
(* when there are metrics (columns not overridden), the column update     *)
(* when there are columns, in this order and no other.                    *)
C4_CreateThenUpdatesEmptyMetrics ==
    PastCreate =>
        /\ IsPrefix(Shapes(CallsOf(run, idx)), ExpectedCalls(<<>>))
        /\ ModelDone => Shapes(CallsOf(run, idx)) = ExpectedCalls(<<>>)

(* C4, amended: the same, the base update sending the empty list unless   *)
(* the model's meta.superset has a metrics key, whose value it then sends. *)
C4_CreateThenUpdates ==
    PastCreate =>
        LET base == IF models[idx].superset.has_metrics
                    THEN models[idx].superset.metrics ELSE <<>>
        IN  /\ IsPrefix(Shapes(CallsOf(run, idx)), ExpectedCalls(base))
            /\ ModelDone => Shapes(CallsOf(run, idx)) = ExpectedCalls(base)

C4_Witness ==
    /\ ModelDone
    /\ existing = <<>>
    /\ Len(CallsOf(run, idx)) = 4
    /\ CallsOf(run, idx)[2].metrics = <<>>

(* C5: when the create call of a model fails, no get_dataset and no       *)
(* update is issued for the model, it adds nothing to the result, and the *)
(* loop goes on with the next model.                                      *)
C5_CreateFailureSkipsModel ==
    \A k \in 1..Len(log) :
        (log[k].op = "create_dataset" /\ ~log[k].ok) =>
            /\ \A j \in 1..Len(log) :
                  (log[j].run = log[k].run /\ log[j].idx = log[k].idx)
                      => log[j].op \in {"get_datasets", "create_dataset"}
            /\ log[k].run = run => idx > log[k].idx
            /\ log[k].idx < Len(models) =>
                  \/ Started(log[k].run, log[k].idx + 1)
                  \/ log[k].run = run /\ pc = "locate" /\ idx = log[k].idx + 1
            /\ (log[k].idx = Len(models) /\ log[k].run = run) => pc = "done"

C5_Witness ==
    \E k \in 1..Len(log) :
        /\ log[k].op = "create_dataset"
        /\ ~log[k].ok
        /\ log[k].idx = 1
        /\ Appended(log[k].run, 2)

(* C6: a failure of a remote call other than create is fatal to its model *)
(* only: the loop goes on with the next model.                            *)
C6_RemoteFailureFailsModelOnly ==
    (pc = "aborted" /\ error = "RemoteError")
        => \A j \in (idx + 1)..Len(models) : Started(run, j)

(* C7: when two or more datasets share the model's table name and none    *)
(* stores its unique identifier, the model is skipped and no dataset is   *)
(* created for it.                                                        *)
C7_NoCreateWhenNoneMatches ==
    pc = "create" =>
        ~(/\ Len(Found(remote, models[idx])) >= 2
          /\ ByUniqueId(remote, Found(remote, models[idx]), models[idx]) = <<>>)

(* C8: without remote failures, a model's dataset is created in the first *)
(* run at most and no later run issues a create.                          *)
C8_CreatedOncePerModel ==
    ~failed =>
        \A k \in 1..Len(log) : log[k].op = "create_dataset" => log[k].run = 1

(* C9: a remote metric whose name is that of a metric of the manifest is  *)
(* replaced by the manifest's: the dataset holds a metric of that name    *)
(* with the compiled expression once its model is reconciled.             *)
C9_ManifestWinsOnCollision ==
    ModelDone =>
        \A k \in 1..Len(existing_metrics) :
            existing_metrics[k].metric_name \in ManifestNames =>
                \E j \in 1..Len(remote[dataset].metrics) :
                    /\ remote[dataset].metrics[j].metric_name
                           = existing_metrics[k].metric_name
                    /\ remote[dataset].metrics[j].expression
                           = get_metric_expression(existing_metrics[k].metric_name,
                                                   ByName(metrics)).val

(* What C10 speaks of *)

RecognizedMethods ==
    {"count", "sum", "average", "min", "max", "count_distinct", "median",
     "derived", "expression"}

\* a metric that is present with a recognized method, and so are the metrics it
\* references, through at most k references
RECURSIVE Resolvable(_, _, _)
Resolvable(name, md, k) ==
    /\ k > 0
    /\ name \in DOMAIN md
    /\ md[name].calculation_method \in RecognizedMethods
    /\ md[name].calculation_method \in {"derived", "expression"} =>
           \A i \in 1..Len(md[name].metrics) :
               Resolvable(md[name].metrics[i], md, k - 1)

(* C10: get_metric_expression raises for a name that is not in the        *)
(* mapping and for a calculation method that is not recognized, and       *)
(* returns an expression for a metric whose references all resolve.       *)
C10_CompileErrors ==
    pc = "compiled" =>
        LET md == ByName(c_metrics)
        IN  /\ c_name \notin DOMAIN md =>
                  ~c_out.ok /\ c_out.err = "Invalid metric"
            /\ (c_name \in DOMAIN md
                    /\ md[c_name].calculation_method \notin RecognizedMethods) =>
                  ~c_out.ok /\ c_out.err = "Unable to generate metric expression"
            /\ Resolvable(c_name, md, Cardinality(DOMAIN md)) =>
                  c_out.ok /\ c_out.val # <<>>

C10_Witness ==
    /\ pc = "compiled"
    /\ c_name \in Names(c_metrics)
    /\ ByName(c_metrics)[c_name].calculation_method = "bogus"
    /\ c_out = Raised("Unable to generate metric expression")

(* What C11 and C12 speak of *)

\* the SQL aggregate function the specification names for a simple method
AggregateOf(method) ==
    IF method = "count" THEN "COUNT"
    ELSE IF method = "sum" THEN "SUM"
    ELSE IF method = "average" THEN "AVG"
    ELSE IF method = "min" THEN "MIN"
    ELSE "MAX"

\* the call compiled a metric of the mapping that has a simple method
CompiledSimple ==
    /\ pc = "compiled"
    /\ c_name \in Names(c_metrics)
    /\ ByName(c_metrics)[c_name].calculation_method
           \in {"count", "sum", "average", "min", "max"}

c_metric == ByName(c_metrics)[c_name]

\* the conditions of a filter list, joined by AND in list order
RECURSIVE Conditions(_)
Conditions(filters) ==
    IF Len(filters) = 1
    THEN Head(filters).field \o <<" ">> \o Head(filters).operator
             \o <<" ">> \o Head(filters).value
    ELSE Head(filters).field \o <<" ">> \o Head(filters).operator
             \o <<" ">> \o Head(filters).value
             \o <<" AND ">> \o Conditions(Tail(filters))

(* C11 as stated: a metric without filters whose method is count, sum,    *)
(* average, min or max compiles to exactly FUNC(expr), with nothing       *)
(* wrapped around it.                                                     *)
C11_SimpleBare ==
    (CompiledSimple /\ c_metric.filters = <<>>) =>
        c_out = Returned(<<AggregateOf(c_metric.calculation_method), "(">>
                             \o c_metric.expression \o <<")">>)

(* C11: a metric without filters whose method is count, sum, average, min *)
(* or max compiles to COALESCE(FUNC(expr), 0).                            *)
C11_SimpleCoalesced ==
    (CompiledSimple /\ c_metric.filters = <<>>) =>
        c_out = Returned(<<"COALESCE(", AggregateOf(c_metric.calculation_method),
                           "(">> \o c_metric.expression \o <<")", ", 0)">>)

C11_Witness ==
    /\ pc = "compiled"
    /\ c_name = NA
    /\ c_metrics = <<Metric(NA, "average", <<"amount">>, <<>>, <<>>, <<>>, NoKwargs)>>
    /\ c_out = Returned(<<"COALESCE(", "AVG", "(", "amount", ")", ", 0)">>)

(* C12 as stated: a metric with filters and a simple method compiles to   *)
(* CASE WHEN c THEN FUNC(expr) END, c being the filters joined by AND in  *)
(* list order.                                                            *)
C12_FilterAroundAggregate ==
    (CompiledSimple /\ c_metric.filters # <<>>) =>
        c_out = Returned(<<"CASE WHEN ">> \o Conditions(c_metric.filters)
                             \o <<" THEN ", AggregateOf(c_metric.calculation_method),
                                  "(">> \o c_metric.expression \o <<")", " END">>)

(* C12: a metric with filters and a simple method compiles to             *)
(* COALESCE(FUNC(CASE WHEN c THEN expr END), 0), c being the filters      *)
(* joined by AND in list order.                                           *)
C12_FilterInsideAggregate ==
    (CompiledSimple /\ c_metric.filters # <<>>) =>
        c_out = Returned(<<"COALESCE(", AggregateOf(c_metric.calculation_method),
                           "(", "CASE WHEN ">> \o Conditions(c_metric.filters)
                             \o <<" THEN ">> \o c_metric.expression
                             \o <<" END", ")", ", 0)">>)

C12_Witness ==
    /\ pc = "compiled"
    /\ c_name = NA
    /\ c_metrics = <<Metric(NA, "sum", <<"amount">>, <<F1, F2>>, <<>>, <<>>, NoKwargs)>>
    /\ c_out = Returned(<<"COALESCE(", "SUM", "(", "CASE WHEN ",
                          "country", " ", "=", " ", "'US'", " AND ",
                          "amount", " ", ">", " ", "0",
                          " THEN ", "amount", " END", ")", ", 0)">>)

(* What C13 speaks of *)

\* the references of `names` that occur at the head of s
MatchesAt(s, names) == {i \in 1..Len(names) : StartsWith(s, names[i])}

\* s with every occurrence of a name of `names` replaced by the value of the
\* same index, all at once: the longest name that matches is taken and what
\* was put in is not looked at again
RECURSIVE Simultaneous(_, _, _)
Simultaneous(s, names, vals) ==
    IF s = <<>> THEN <<>>
    ELSE IF MatchesAt(s, names) = {} THEN <<Head(s)>> \o Simultaneous(Tail(s), names, vals)
    ELSE LET i == CHOOSE i \in MatchesAt(s, names) :
                      \A j \in MatchesAt(s, names) : Len(names[j]) <= Len(names[i])
         IN  vals[i] \o Simultaneous(SubSeq(s, Len(names[i]) + 1, Len(s)), names, vals)

(* C13: the expression compiled for a derived or expression metric is its *)
(* template with every reference replaced, all at once, by the compiled   *)
(* expression of the referenced metric, whatever the order of the         *)
(* references and also when the name of one occurs in the name or in the  *)
(* compiled expression of another.                                        *)
C13_SimultaneousSubstitution ==
    (/\ pc = "compiled"
     /\ c_name \in Names(c_metrics)
     /\ c_metric.calculation_method \in {"derived", "expression"}
     /\ c_out.ok) =>
        LET md == ByName(c_metrics)
            template == IF c_metric.filters = <<>> THEN c_metric.expression
                        ELSE <<"CASE WHEN ">> \o Conditions(c_metric.filters)
                                 \o <<" THEN ">> \o c_metric.expression \o <<" END">>
            vals == [i \in 1..Len(c_metric.metrics) |->
                        get_metric_expression(c_metric.metrics[i], md).val]
        IN  c_out.val = Simultaneous(template, c_metric.metrics, vals)

(* What C14 speaks of *)

\* every name a metric of the manifest references is the name of a metric of
\* the manifest
AllReferencesExist ==
    \A i \in 1..Len(metrics) : \A k \in 1..Len(metrics[i].metrics) :
        metrics[i].metrics[k] \in ManifestNames

(* C14: when every referenced sub-metric exists in the manifest, the      *)
(* metrics that belong to a model by dependency closure are compiled      *)
(* without the error of an unknown metric, also when a sub-metric         *)
(* depends only on another model, and the metrics the model is about to   *)
(* write hold each of them with its compiled expression.                  *)
C14_ClosureMetricsCompile ==
    AllReferencesExist =>
        /\ ~(pc = "aborted" /\ error = "Invalid metric")
        /\ pc \in {"base", "metrics"} =>
               \A k \in 1..Len(Belongs(models[idx], metrics)) :
                   LET name == metrics[Belongs(models[idx], metrics)[k]].name
                   IN  \E j \in 1..Len(dataset_metrics) :
                           /\ dataset_metrics[j].metric_name = name
                           /\ dataset_metrics[j].expression
                                  = get_metric_expression(name, ByName(metrics)).val

(* What C15 speaks of *)

\* the current iteration has read the metrics of its dataset
DetailRead ==
    \E k \in 1..Len(log) :
        /\ log[k].run = run /\ log[k].idx = idx
        /\ log[k].op = "get_dataset" /\ log[k].ok

\* sync_datasets has stopped working on the current model: its loop body came
\* to its end or an exception left the function
StoppedOnModel == pc \in {"append", "aborted"} /\ DetailRead

\* a metric of the dataset that is not `count` and that no metric of the
\* manifest is named like
RemoteOnly(m) == m.metric_name # CountName /\ m.metric_name \notin ManifestNames

(* C15: whenever sync_datasets has stopped working on a model, also when  *)
(* an update failed after the base update cleared the metrics, every      *)
(* remote-only metric the dataset had is still on the dataset.            *)
C15_RemoteOnlySurvivesFailure ==
    StoppedOnModel =>
        \A k \in 1..Len(existing_metrics) :
            RemoteOnly(existing_metrics[k]) =>
                \E j \in 1..Len(remote[dataset].metrics) :
                    Whitelisted(remote[dataset].metrics[j])
                        = Whitelisted(existing_metrics[k])

(* What C16 speaks of *)

\* the updates of a dataset that the service applied
AppliedUpdates == {k \in 1..Len(log) : log[k].op = "update_dataset" /\ log[k].ok}

(* C16: in one run, the updates of two distinct models are never applied  *)
(* to the same dataset, and a model never takes as its own a dataset      *)
(* that stores the unique id of another model.                            *)
C16_OneModelPerDataset ==
    /\ \A j, k \in AppliedUpdates :
           (log[j].run = log[k].run /\ log[j].id = log[k].id) =>
               models[log[j].idx].unique_id = models[log[k].idx].unique_id
    /\ (pc \in {"detail", "base"} /\ remote[dataset].extra.has_unique_id) =>
           remote[dataset].extra.unique_id = models[idx].unique_id

(* C17: the is_dttm written for a column is true exactly when its data    *)
(* type is timestamp and its is_dttm override is not explicitly false: an *)
(* explicit false gives false, an absent or true override leaves a        *)
(* timestamp column true.                                                 *)
C17_IsDttmOverride ==
    (ModelDone /\ models[idx].columns # <<>>) =>
        \A k \in 1..Len(models[idx].columns) :
            /\ remote[dataset].columns[k].column_name = models[idx].columns[k].name
            /\ remote[dataset].columns[k].is_dttm
                   = (/\ models[idx].columns[k].data_type = "timestamp"
                      /\ models[idx].columns[k].is_dttm # "false")

(* What C18 speaks of *)

\* the base updates sync_datasets issued
BaseUpdates ==
    {k \in 1..Len(log) : log[k].op = "update_dataset" /\ "extra" \in log[k].keys}

(* C18: every key of the `superset` bag of a model takes priority over    *)
(* the computed value in the base update: the update carries the bag's    *)
(* value for it, external_url with a base URL configured included.        *)
C18_BagTakesPriority ==
    \A k \in BaseUpdates :
        LET bag == models[log[k].idx].superset
        IN  /\ bag.has_extra => log[k].extra = bag.extra
            /\ bag.has_metrics => log[k].metrics = bag.metrics
            /\ bag.has_external_url =>
                   /\ "external_url" \in log[k].keys
                   /\ log[k].external_url = bag.external_url

(* What C19 speaks of *)

\* the metrics updates the service applied
MetricsUpdates == {k \in AppliedUpdates : log[k].keys = {"metrics"}}

\* the entries of a metrics update that come from the manifest
ManifestEntries(k) ==
    {log[k].metrics[j] : j \in {j \in 1..Len(log[k].metrics) :
                                   log[k].metrics[j].metric_name \in ManifestNames}}

(* C19: the records of the manifest are not changed by sync_datasets: a   *)
(* metric that belongs to several models is written with the same         *)
(* payload, its overrides included, to the dataset of each of them.       *)
C19_SamePayloadForEveryModel ==
    \A j, k \in MetricsUpdates :
        \A a \in ManifestEntries(j), b \in ManifestEntries(k) :
            a.metric_name = b.metric_name => a = b

(* What C20 speaks of *)

\* the metrics a metric refers to: the `metrics` of a derived or expression
\* metric of the mapping
References(name, md) ==
    IF name \in DOMAIN md /\ md[name].calculation_method \in {"derived", "expression"}
    THEN {md[name].metrics[i] : i \in 1..Len(md[name].metrics)}
    ELSE {}

\* the names reached from those of `from` through at most k references
RECURSIVE Reach(_, _, _)
Reach(from, md, k) ==
    IF k = 0 THEN from
    ELSE Reach(from \cup UNION {References(n, md) : n \in from}, md, k - 1)

\* a cycle of references is reachable from the metric
CycleReachable(name, md) ==
    \E n \in Reach({name}, md, Cardinality(DOMAIN md) + 1) :
        n \in Reach(References(n, md), md, Cardinality(DOMAIN md) + 1)

\* how the evaluation of a metric ends when the references are followed depth
\* first in list order and the first reference that raises ends it: "cycle"
\* when it comes back to a metric of `path`, those whose compilation is in
\* progress
RECURSIVE Walk(_, _, _)
Walk(name, md, path) ==
    IF name \in path THEN "cycle"
    ELSE IF name \notin DOMAIN md THEN "raises"
    ELSE IF md[name].calculation_method \in {"derived", "expression"}
    THEN LET refs == md[name].metrics
             ends == [i \in 1..Len(refs) |-> Walk(refs[i], md, path \cup {name})]
             stops == {i \in 1..Len(refs) : ends[i] # "returns"}
         IN  IF stops = {} THEN "returns"
             ELSE ends[CHOOSE i \in stops : \A j \in stops : i <= j]
    ELSE IF md[name].calculation_method \in RecognizedMethods THEN "returns"
    ELSE "raises"

(* C20 as stated: get_metric_expression ends, with a result or an error   *)
(* of its own, exactly when no cycle of references is reachable from the  *)
(* metric; with a reachable cycle the recursion does not end.             *)
C20_EndsIffNoCycleReachable ==
    pc = "compiled" =>
        (c_out.err # "RecursionError" <=> ~CycleReachable(c_name, ByName(c_metrics)))

(* C20: get_metric_expression ends, with a result or an error of its own, *)
(* exactly when the evaluation of the references, depth first in list     *)
(* order and ended by the first reference that raises, never comes back   *)
(* to a metric whose compilation is in progress; nothing else bounds the  *)
(* recursion.                                                             *)
C20_EndsIffNoCycleEntered ==
    pc = "compiled" =>
        (c_out.err # "RecursionError" <=> Walk(c_name, ByName(c_metrics), {}) # "cycle")

C20_Witness ==
    /\ pc = "compiled"
    /\ c_name = NA
    /\ Len(c_metrics) = 2
    /\ c_metrics[1].calculation_method = "derived" /\ c_metrics[1].metrics = <<NB>>
    /\ c_metrics[2].calculation_method = "expression" /\ c_metrics[2].metrics = <<NA, NB>>
    /\ CycleReachable(c_name, ByName(c_metrics))
    /\ c_out = Raised("RecursionError")

====
